---- MODULE Spec2Model ----
(***************************************************************************)
(* pynote_ui: the component state synchronisation core.                    *)
(*                                                                         *)
(* StateManager (core.py) is the process-wide registry of widget           *)
(* instances; UIElement is the widget base class; Slider (elements.py) is  *)
(* a variant with a typed internal field.  Python values are records       *)
(* [t |-> type name, v |-> payload]; dicts are functions over their keys.  *)
(* A Python call is an operator from a state record to a state record:     *)
(*   instances, by_cell, cur, comm   the four StateManager class fields    *)
(*   heap                            the widget objects ever constructed   *)
(*   log                             the calls made into user code and     *)
(*                                   into widget handlers during the call  *)
(*   ret, exc                        the value returned / an exception     *)
(*                                   propagating out of the call           *)
(***************************************************************************)
EXTENDS Integers, Sequences, FiniteSets, TLC

VARIABLES instances,          \* StateManager._instances: id -> heap reference
          instances_by_cell,  \* StateManager._instances_by_cell: cell -> list of ids
          current_cell_id,    \* StateManager._current_cell_id
          comm_target,        \* StateManager._comm_target
          heap,               \* every widget object constructed so far
          last,               \* the last completed top-level call and its outcome
          born,               \* history: per widget, the active cell at construction
          cleared,            \* history: per widget, clear_cell(born) was called since
          lastSet,            \* history: argument of the latest set_current_cell
          steps,              \* history: number of top-level calls made so far
          prevComm,           \* history: the channel the latest register_comm_target replaced
          race                \* the calls in progress on the event thread and the cell thread

vars == <<instances, instances_by_cell, current_cell_id, comm_target, heap,
          last, born, cleared, lastSet, steps, prevComm, race>>

\* ------------------------------------------------------------------ bounds

MaxWidgets == 2
MaxSteps == 5
MaxStrLen == 3     \* characters in a Text widget's content

\* ------------------------------------------------------------ Python values

NoneS == "<None>"            \* None, where the slot otherwise holds a string
None == [t |-> "NoneType", v |-> 0]
True == [t |-> "bool", v |-> 1]
False == [t |-> "bool", v |-> 0]
PyInt(n) == [t |-> "int", v |-> n]
PyFloat(tenths) == [t |-> "float", v |-> tenths]   \* a float, in tenths
PyStr(i) == [t |-> "str", v |-> i]                 \* the i-th string of StrTable
PyRef(r) == [t |-> "ref", v |-> r]

\* the strings the model's inputs use; StrNum gives the number a string is a
\* literal of (in tenths), StrIsInt whether it is an integer literal
StrTable == <<"7", "7.5", "abc", "Slider", "", "text", "col", "full", "center", "left", "top">>
StrIsNum == <<TRUE, TRUE, FALSE, FALSE, FALSE, FALSE, FALSE, FALSE, FALSE, FALSE, FALSE>>
StrIsInt == <<TRUE, FALSE, FALSE, FALSE, FALSE, FALSE, FALSE, FALSE, FALSE, FALSE, FALSE>>
StrNum == <<70, 75, 0, 0, 0, 0, 0, 0, 0, 0, 0>>

Ok(x) == [ok |-> TRUE, val |-> x]
Raise == [ok |-> FALSE, val |-> None]

\* int(x): truncation toward zero; ValueError / TypeError as Raise
Py_int(x) ==
  CASE x.t = "int" -> Ok(x)
    [] x.t = "bool" -> Ok(PyInt(x.v))
    [] x.t = "float" -> Ok(PyInt(IF x.v >= 0 THEN x.v \div 10 ELSE -((-x.v) \div 10)))
    [] x.t = "str" -> IF StrIsInt[x.v] THEN Ok(PyInt(StrNum[x.v] \div 10)) ELSE Raise
    [] OTHER -> Raise

\* float(x)
Py_float(x) ==
  CASE x.t = "float" -> Ok(x)
    [] x.t \in {"int", "bool"} -> Ok(PyFloat(10 * x.v))
    [] x.t = "str" -> IF StrIsNum[x.v] THEN Ok(PyFloat(StrNum[x.v])) ELSE Raise
    [] OTHER -> Raise

\* bool(x)
Py_bool(x) ==
  CASE x.t \in {"int", "bool", "float"} -> Ok(IF x.v # 0 THEN True ELSE False)
    [] x.t = "str" -> Ok(IF StrTable[x.v] # "" THEN True ELSE False)
    [] x.t = "NoneType" -> Ok(False)

\* type(old)(x) for the types a Slider value takes in the model
Py_type_call(old, x) ==
  CASE old.t = "int" -> Py_int(x)
    [] old.t = "float" -> Py_float(x)
    [] old.t = "bool" -> Py_bool(x)
    [] old.t = "NoneType" -> Raise

EmptyDict == [k \in {} |-> None]
Dict1(k, x) == [n \in {k} |-> x]

\* dict.update(other)
DictUpdate(d, kw) ==
  [k \in DOMAIN d \cup DOMAIN kw |-> IF k \in DOMAIN kw THEN kw[k] ELSE d[k]]

\* truth value of a string-or-None slot: None and "" are falsy
Truthy(x) == x # NoneS /\ x # ""

\* uuid.uuid4(): the n-th identifier drawn is a fresh one
UUIDS == <<"u1", "u2", "u3", "u4">>
uuid4(n) == UUIDS[n]

\* ------------------------------------------------------------ input domains

Cells == {"", "c1", "c2"}
Channels == {NoneS, "ch1", "chRaise"}      \* chRaise raises an Exception
Callbacks == {NoneS, "cbOk", "cbRaise"}    \* cbRaise raises an Exception
Kinds == {"UIElement", "Slider"}
Uids == {uuid4(n) : n \in 1..MaxWidgets} \cup {"zz"}
Events == {EmptyDict, Dict1("value", PyInt(7))}
Deltas == {Dict1("label", PyStr(3))}
SetterValues == {PyInt(7)}

Refs == 1..Len(heap)

\* --------------------------------------------------------------- the state

St == [instances |-> instances, by_cell |-> instances_by_cell,
       cur |-> current_cell_id, comm |-> comm_target, heap |-> heap,
       log |-> <<>>, ret |-> None, exc |-> FALSE]

LogEntry(f, who, uid, data, props) ==
  [f |-> f, who |-> who, uid |-> uid, data |-> data, props |-> props]

MapRemove(d, ks) == [k \in DOMAIN d \ ks |-> d[k]]
ListItems(l) == {l[i] : i \in 1..Len(l)}

\* the widget object whose id is uid
RefOf(s, uid) == CHOOSE r \in 1..Len(s.heap) : s.heap[r].id = uid

\* ------------------------------------------------------------ user callables

\* the installed channel callback is called with (uid, data)
CallComm(s, uid, data) ==
  LET e == LogEntry("comm", s.comm, uid, data, s.heap[RefOf(s, uid)].props)
      s1 == [s EXCEPT !.log = Append(@, e)]
  IN IF s.comm = "chRaise" THEN [s1 EXCEPT !.exc = TRUE] ELSE s1

\* ------------------------------------------------------------- StateManager

StateManager_set_current_cell(s, cell_id) == [s EXCEPT !.cur = cell_id]

\* clear_cell that forgets `del cls._instances_by_cell[cell_id]`
Mut_clear_cell_keeps_list(s, cell_id) ==
  IF cell_id \in DOMAIN s.by_cell
  THEN [s EXCEPT !.instances = MapRemove(@, ListItems(s.by_cell[cell_id]))]
  ELSE s

\* clear_cell that also resets the current cell when it clears the active one
Mut_clear_cell_resets_current(s, cell_id) ==
  IF cell_id \in DOMAIN s.by_cell
  THEN [s EXCEPT !.instances = MapRemove(@, ListItems(s.by_cell[cell_id])),
                 !.by_cell = MapRemove(@, {cell_id}),
                 !.cur = IF s.cur = cell_id THEN NoneS ELSE @]
  ELSE s

\* clear_cell that empties _instances instead of removing the cell's ids
Mut_clear_cell_drops_all(s, cell_id) ==
  IF cell_id \in DOMAIN s.by_cell
  THEN [s EXCEPT !.instances = EmptyDict, !.by_cell = MapRemove(@, {cell_id})]
  ELSE s

\* clear_cell without the `if cell_id in cls._instances_by_cell` test (KeyError)
Mut_clear_cell_KeyError(s, cell_id) ==
  IF cell_id \in DOMAIN s.by_cell
  THEN [s EXCEPT !.instances = MapRemove(@, ListItems(s.by_cell[cell_id])),
                 !.by_cell = MapRemove(@, {cell_id})]
  ELSE [s EXCEPT !.exc = TRUE]

StateManager_clear_cell(s, cell_id) ==
  IF cell_id \in DOMAIN s.by_cell
  THEN [s EXCEPT !.instances = MapRemove(@, ListItems(s.by_cell[cell_id])),
                 !.by_cell = MapRemove(@, {cell_id})]
  ELSE s

\* register that appends the id to the cell's list twice
Mut_register_twice(s, ref) ==
  LET uid == s.heap[ref].id
      s1 == [s EXCEPT !.instances = DictUpdate(@, Dict1(uid, ref))]
      lst == IF s.cur \in DOMAIN s.by_cell THEN s.by_cell[s.cur] ELSE <<>>
  IN IF Truthy(s.cur)
     THEN [s1 EXCEPT !.by_cell = DictUpdate(@, Dict1(s.cur, Append(Append(lst, uid), uid)))]
     ELSE s1

StateManager_register(s, ref) ==
  LET uid == s.heap[ref].id
      s1 == [s EXCEPT !.instances = DictUpdate(@, Dict1(uid, ref))]
      lst == IF s.cur \in DOMAIN s.by_cell THEN s.by_cell[s.cur] ELSE <<>>
  IN IF Truthy(s.cur)
     THEN [s1 EXCEPT !.by_cell = DictUpdate(@, Dict1(s.cur, Append(lst, uid)))]
     ELSE s1

StateManager_get(s, uid) ==
  [s EXCEPT !.ret = IF uid \in DOMAIN s.instances THEN PyRef(s.instances[uid]) ELSE None]

\* register_comm_target that keeps a channel already installed
Mut_register_comm_target_keeps_first(s, callback) ==
  IF Truthy(s.comm) THEN s ELSE [s EXCEPT !.comm = callback]

StateManager_register_comm_target(s, callback) == [s EXCEPT !.comm = callback]

\* send_update without the `if cls._comm_target` test, the call outside the try
Mut_send_update_no_guard(s, uid, data) ==
  IF Truthy(s.comm)
  THEN [CallComm(s, uid, data) EXCEPT !.exc = FALSE]
  ELSE [s EXCEPT !.exc = TRUE]

\* send_update without the try/except around the channel call
Mut_send_update_no_try(s, uid, data) ==
  IF Truthy(s.comm) THEN CallComm(s, uid, data) ELSE s

StateManager_send_update(s, uid, data) ==
  IF Truthy(s.comm)
  THEN [CallComm(s, uid, data) EXCEPT !.exc = FALSE]    \* except Exception: logged
  ELSE s

\* ---------------------------------------------------------------- UIElement

\* the attributes of a widget object: those UIElement.__init__ sets, and the
\* subclass attributes (_value, step, _checked, children) with the value they
\* have when the subclass does not set them; children_json is the list
\* object a container stores as props["children"]
NewObject(id, kind, kwargs, value, step) ==
  [id |-> id, kind |-> kind, props |-> kwargs, _value |-> value, step |-> step,
   _on_update |-> NoneS, _auto_displayed |-> FALSE,
   _checked |-> None, children |-> <<>>, children_json |-> <<>>]

\* __init__ that numbers the widget by the count of registered instances
Mut_init_id_from_live_count(s, kind, kwargs, value, step) ==
  LET obj == NewObject(uuid4(Cardinality(DOMAIN s.instances) + 1), kind, kwargs, value, step)
      s1 == [s EXCEPT !.heap = Append(@, obj)]
  IN StateManager_register(s1, Len(s1.heap))

UIElement_init(s, kind, kwargs, value, step) ==
  LET obj == NewObject(uuid4(Len(s.heap) + 1), kind, kwargs, value, step)
      s1 == [s EXCEPT !.heap = Append(@, obj)]
  IN StateManager_register(s1, Len(s1.heap))

\* to_json that names the base class instead of the widget's own class
Mut_to_json_base_type(s, ref) ==
  [id |-> s.heap[ref].id, type |-> "UIElement", props |-> s.heap[ref].props]

\* to_json: "props" is the widget's own dict object, not a copy
UIElement_to_json(s, ref) ==
  [id |-> s.heap[ref].id, type |-> s.heap[ref].kind, props |-> s.heap[ref].props]

UIElement_on_update(s, ref, callback) ==
  [s EXCEPT !.heap[ref]._on_update = callback]

\* send_update with dirty tracking: nothing is pushed when no value changes
Mut_send_update_skips_unchanged(s, ref, kwargs) ==
  LET s1 == [s EXCEPT !.heap[ref].props = DictUpdate(@, kwargs)]
  IN IF s1.heap[ref].props = s.heap[ref].props
     THEN s
     ELSE StateManager_send_update(s1, s1.heap[ref].id, kwargs)

\* send_update that pushes before it updates self.props
Mut_send_update_push_first(s, ref, kwargs) ==
  LET s1 == StateManager_send_update(s, s.heap[ref].id, kwargs)
  IN [s1 EXCEPT !.heap[ref].props = DictUpdate(@, kwargs)]

\* send_update that registers the widget again before pushing
Mut_send_update_reregisters(s, ref, kwargs) ==
  LET s1 == [s EXCEPT !.heap[ref].props = DictUpdate(@, kwargs)]
  IN StateManager_send_update(StateManager_register(s1, ref), s1.heap[ref].id, kwargs)

UIElement_send_update(s, ref, kwargs) ==
  LET s1 == [s EXCEPT !.heap[ref].props = DictUpdate(@, kwargs)]
  IN StateManager_send_update(s1, s1.heap[ref].id, kwargs)

UIElement_hide(s, ref) == UIElement_send_update(s, ref, Dict1("hidden", True))

UIElement_show(s, ref) == UIElement_send_update(s, ref, Dict1("hidden", False))

\* --------------------------------------------------------------------- Text

TextProps(content) ==
  [k \in {"content", "size", "width", "height", "grow", "shrink", "force_dimensions",
          "align_h", "align_v", "border", "background", "color"} |->
     CASE k = "content" -> content
       [] k = "force_dimensions" -> False
       [] k = "align_h" -> PyStr(10)
       [] k = "align_v" -> PyStr(11)
       [] k \in {"border", "background"} -> True
       [] OTHER -> None]

Text_init(s, content) == UIElement_init(s, "Text", TextProps(content), content, None)

\* the widget's _on_update callback is called with (data): cbRaise raises an
\* Exception, cbHide calls hide() on the widget it is registered on, cbNew
\* constructs Text("abc")
CallCallback(s, ref, data) ==
  LET cb == s.heap[ref]._on_update
      e == LogEntry("on_update", cb, s.heap[ref].id, data, s.heap[ref].props)
      s1 == [s EXCEPT !.log = Append(@, e)]
  IN CASE cb = "cbRaise" -> [s1 EXCEPT !.exc = TRUE]
       [] cb = "cbHide" -> UIElement_hide(s1, ref)
       [] cb = "cbNew" -> Text_init(s1, PyStr(3))
       [] OTHER -> s1

UIElement_handle_interaction(s, ref, data) ==
  IF Truthy(s.heap[ref]._on_update) THEN CallCallback(s, ref, data) ELSE s

\* ------------------------------------------------------------------- Slider

SliderProps(value, step) ==
  [k \in {"value", "min", "max", "step", "label", "size", "width", "height", "grow",
          "shrink", "force_dimensions", "border", "background", "color"} |->
     CASE k = "value" -> value
       [] k = "min" -> PyInt(0)
       [] k = "max" -> PyInt(100)
       [] k = "step" -> step
       [] k = "label" -> PyStr(4)
       [] k = "force_dimensions" -> False
       [] k \in {"border", "background"} -> True
       [] OTHER -> None]

Slider_init(s, value, step) ==
  UIElement_init(s, "Slider", SliderProps(value, step), value, step)

Slider_value_setter(s, ref, new_value) ==
  LET s1 == [s EXCEPT !.heap[ref]._value = new_value]
  IN UIElement_send_update(s1, ref, Dict1("value", new_value))

\* slider that stores the raw event value, as Input does
Mut_Slider_handle_interaction_raw(s, ref, data) ==
  IF "value" \in DOMAIN data
  THEN UIElement_handle_interaction(
         [s EXCEPT !.heap[ref]._value = data["value"],
                   !.heap[ref].props = DictUpdate(@, Dict1("value", data["value"]))],
         ref, data)
  ELSE UIElement_handle_interaction(s, ref, data)

Slider_handle_interaction(s, ref, data) ==
  IF "value" \in DOMAIN data
  THEN LET c == IF s.heap[ref].step.t = "float"
                THEN Py_float(data["value"])
                ELSE Py_type_call(s.heap[ref]._value, data["value"])
       IN IF c.ok
          THEN UIElement_handle_interaction(
                 [s EXCEPT !.heap[ref]._value = c.val,
                           !.heap[ref].props = DictUpdate(@, Dict1("value", c.val))],
                 ref, data)
          ELSE [s EXCEPT !.exc = TRUE]
  ELSE UIElement_handle_interaction(s, ref, data)

\* -------------------------------------------------------------------- Input

InputProps(value) ==
  [k \in {"value", "placeholder", "input_type", "color", "size", "disabled", "width",
          "height", "grow", "shrink", "force_dimensions", "border", "background"} |->
     CASE k = "value" -> value
       [] k = "placeholder" -> PyStr(5)
       [] k = "input_type" -> PyStr(6)
       [] k \in {"disabled", "force_dimensions"} -> False
       [] k \in {"border", "background"} -> True
       [] OTHER -> None]

Input_init(s, value) == UIElement_init(s, "Input", InputProps(value), value, None)

Input_value_setter(s, ref, new_value) ==
  LET s1 == [s EXCEPT !.heap[ref]._value = new_value]
  IN UIElement_send_update(s1, ref, Dict1("value", new_value))

\* input that calls the callback before it stores the event's value
Mut_Input_handle_interaction_callback_first(s, ref, data) ==
  LET s1 == UIElement_handle_interaction(s, ref, data)
  IN IF "value" \in DOMAIN data
     THEN [s1 EXCEPT !.heap[ref]._value = data["value"],
                     !.heap[ref].props = DictUpdate(@, Dict1("value", data["value"]))]
     ELSE s1

Input_handle_interaction(s, ref, data) ==
  IF "value" \in DOMAIN data
  THEN UIElement_handle_interaction(
         [s EXCEPT !.heap[ref]._value = data["value"],
                   !.heap[ref].props = DictUpdate(@, Dict1("value", data["value"]))],
         ref, data)
  ELSE UIElement_handle_interaction(s, ref, data)

\* ------------------------------------------------------------------- Toggle

ToggleProps(checked) ==
  [k \in {"checked", "label", "color", "size", "disabled", "align", "spaced",
          "reverse", "width", "height", "grow", "shrink", "force_dimensions",
          "border", "background"} |->
     CASE k = "checked" -> checked
       [] k \in {"disabled", "spaced", "reverse", "force_dimensions"} -> False
       [] k \in {"border", "background"} -> True
       [] OTHER -> None]

Toggle_init(s, checked) ==
  LET s1 == UIElement_init(s, "Toggle", ToggleProps(checked), None, None)
  IN [s1 EXCEPT !.heap[Len(s1.heap)]._checked = checked]

Toggle_checked_setter(s, ref, value) ==
  LET s1 == [s EXCEPT !.heap[ref]._checked = value]
  IN UIElement_send_update(s1, ref, Dict1("checked", value))

\* toggle that absorbs the event through its setter, echoing it to the channel
Mut_Toggle_handle_interaction_echo(s, ref, data) ==
  IF "checked" \in DOMAIN data
  THEN UIElement_handle_interaction(Toggle_checked_setter(s, ref, data["checked"]), ref, data)
  ELSE UIElement_handle_interaction(s, ref, data)

\* toggle that reads the event with data.get("checked")
Mut_Toggle_handle_interaction_get(s, ref, data) ==
  LET x == IF "checked" \in DOMAIN data THEN data["checked"] ELSE None
  IN UIElement_handle_interaction(
       [s EXCEPT !.heap[ref]._checked = x,
                 !.heap[ref].props = DictUpdate(@, Dict1("checked", x))],
       ref, data)

Toggle_handle_interaction(s, ref, data) ==
  IF "checked" \in DOMAIN data
  THEN UIElement_handle_interaction(
         [s EXCEPT !.heap[ref]._checked = data["checked"],
                   !.heap[ref].props = DictUpdate(@, Dict1("checked", data["checked"]))],
         ref, data)
  ELSE UIElement_handle_interaction(s, ref, data)

\* -------------------------------------------------------------------- Group

\* props["children"] is a list object of the container, built once
PyList(owner) == [t |-> "list", v |-> owner]

GroupProps(owner) ==
  [k \in {"children", "layout", "label", "width", "height", "align", "grow", "shrink",
          "border", "background", "padding", "gap", "overflow", "force_dimensions"} |->
     CASE k = "children" -> PyList(owner)
       [] k = "layout" -> PyStr(7)
       [] k = "width" -> PyStr(8)
       [] k = "align" -> PyStr(9)
       [] k \in {"border", "force_dimensions"} -> False
       [] k = "background" -> True
       [] OTHER -> None]

\* [c.to_json() for c in children]: each entry holds the child's id, its class
\* name and a reference to the child's own props dict
ChildrenToJson(s, children) ==
  [i \in 1..Len(children) |->
     [id |-> UIElement_to_json(s, children[i]).id,
      type |-> UIElement_to_json(s, children[i]).type,
      props_of |-> children[i]]]

Group_init(s, children) ==
  LET g == Len(s.heap) + 1
      s1 == UIElement_init(s, "Group", GroupProps(g), None, None)
  IN [s1 EXCEPT !.heap[g].children = children,
                !.heap[g].children_json = ChildrenToJson(s, children)]

\* what serializing the container's to_json() shows for props["children"]
SerializedChildren(s, ref) ==
  LET owner == UIElement_to_json(s, ref).props["children"].v
      l == s.heap[owner].children_json
  IN [i \in 1..Len(l) |->
        [id |-> l[i].id, type |-> l[i].type, props |-> s.heap[l[i].props_of].props]]

\* --------------------------------------------------------------------- Form

FormProps(owner) ==
  [k \in {"children", "label", "width", "height", "border", "background", "padding",
          "gap"} |->
     CASE k = "children" -> PyList(owner)
       [] k = "width" -> PyStr(8)
       [] k \in {"border", "background"} -> True
       [] k = "gap" -> PyInt(2)
       [] OTHER -> None]

Form_init(s, children) ==
  LET f == Len(s.heap) + 1
      s1 == UIElement_init(s, "Form", FormProps(f), None, None)
  IN [s1 EXCEPT !.heap[f].children = children,
                !.heap[f].children_json = ChildrenToJson(s, children)]

\* hasattr(child, 'value'): the classes that define a value property
HasValue(kind) == kind \in {"Slider", "Select", "Input", "Textarea", "Form"}

\* getattr(child, 'placeholder', child.__class__.__name__.lower()): no class
\* defines a placeholder attribute, so the key is the lowered class name
LowerName ==
  [k \in {"UIElement", "Slider", "Input", "Toggle", "Group", "Form"} |->
     CASE k = "UIElement" -> "uielement" [] k = "Slider" -> "slider"
       [] k = "Input" -> "input" [] k = "Toggle" -> "toggle"
       [] k = "Group" -> "group" [] k = "Form" -> "form"]

\* the index of the last child that writes result[key]
LastWriter(s, children, key) ==
  CHOOSE i \in 1..Len(children) :
    /\ HasValue(s.heap[children[i]].kind) /\ LowerName[s.heap[children[i]].kind] = key
    /\ \A j \in (i + 1)..Len(children) :
         ~(HasValue(s.heap[children[j]].kind) /\ LowerName[s.heap[children[j]].kind] = key)

\* Form.value: result[key] = child.value for each child in order
Form_value(s, ref) ==
  LET ch == s.heap[ref].children
      keys == {LowerName[s.heap[ch[i]].kind] :
                 i \in {j \in 1..Len(ch) : HasValue(s.heap[ch[j]].kind)}}
  IN [key \in keys |-> s.heap[ch[LastWriter(s, ch, key)]]._value]

\* instance.handle_interaction(data): the method of the widget's class
Call_handle_interaction(s, ref, data) ==
  LET e == LogEntry("handle_interaction", s.heap[ref].kind, s.heap[ref].id, data,
                    s.heap[ref].props)
      s1 == [s EXCEPT !.log = Append(@, e)]
  IN CASE s.heap[ref].kind = "Slider" -> Slider_handle_interaction(s1, ref, data)
       [] s.heap[ref].kind = "Input" -> Input_handle_interaction(s1, ref, data)
       [] s.heap[ref].kind = "Toggle" -> Toggle_handle_interaction(s1, ref, data)
       [] OTHER -> UIElement_handle_interaction(s1, ref, data)

\* update that looks the instance up with cls._instances[uid] (KeyError)
Mut_update_KeyError(s, uid, data) ==
  IF uid \in DOMAIN s.instances
  THEN LET h == Call_handle_interaction(s, s.instances[uid], data)
       IN IF h.exc THEN [h EXCEPT !.ret = None] ELSE [h EXCEPT !.ret = True]
  ELSE [s EXCEPT !.exc = TRUE]

StateManager_update(s, uid, data) ==
  LET g == StateManager_get(s, uid)
  IN IF g.ret # None
     THEN LET h == Call_handle_interaction(g, g.ret.v, data)
          IN IF h.exc THEN [h EXCEPT !.ret = None] ELSE [h EXCEPT !.ret = True]
     ELSE [g EXCEPT !.ret = False]

\* ------------------------------------------------------------------ display

\* what reaches sys.stdout, one entry per piece: a framed widget payload
\* (who = "ui": MARKER_UI_START, json.dumps(to_json()), MARKER_UI_END), a
\* text, a space or a line break
WriteUI(s, ref) ==
  LogEntry("stdout", "ui", UIElement_to_json(s, ref).id,
           Dict1("type", PyStr(4)), UIElement_to_json(s, ref).props)
WriteText(str) == LogEntry("stdout", "text", str, EmptyDict, EmptyDict)
WriteSpace == LogEntry("stdout", "sp", " ", EmptyDict, EmptyDict)
WriteNewline == LogEntry("stdout", "nl", "\n", EmptyDict, EmptyDict)
Repeat(e, n) == [j \in 1..n |-> e]

\* print(x) for a string x; print() is PrintStr("")
PrintStr(str) == (IF str = "" THEN <<>> ELSE <<WriteText(str)>>) \o <<WriteNewline>>

\* hasattr(element, 'to_json')
HasToJson(element) == element.t = "ref"

\* display with '' added at both ends in stacked mode
DisplayElements(elements, inline) ==
  IF ~inline /\ elements # <<>>
  THEN <<PyStr(5)>> \o elements \o <<PyStr(5)>>
  ELSE elements

\* display that never prints the non-widget items
Mut_DisplayElement_widgets_only(s, elements, i, inline, gap) ==
  IF HasToJson(elements[i])
  THEN <<WriteUI(s, elements[i].v)>>
       \o (IF i < Len(elements)
           THEN IF inline THEN Repeat(WriteSpace, gap) ELSE Repeat(WriteNewline, gap)
           ELSE IF ~inline THEN <<WriteNewline>> ELSE <<>>)
  ELSE <<>>

\* one turn of display's loop
DisplayElement(s, elements, i, inline, gap) ==
  IF HasToJson(elements[i])
  THEN <<WriteUI(s, elements[i].v)>>
       \o (IF i < Len(elements)
           THEN IF inline THEN Repeat(WriteSpace, gap) ELSE Repeat(WriteNewline, gap)
           ELSE IF ~inline THEN <<WriteNewline>> ELSE <<>>)
  ELSE PrintStr(StrTable[elements[i].v])

RECURSIVE DisplayFrom(_, _, _, _, _)
DisplayFrom(s, elements, i, inline, gap) ==
  IF i > Len(elements) THEN <<>>
  ELSE DisplayElement(s, elements, i, inline, gap)
         \o DisplayFrom(s, elements, i + 1, inline, gap)

display(s, elements, inline, gap) ==
  [s EXCEPT !.log = @ \o DisplayFrom(s, DisplayElements(elements, inline), 1, inline, gap),
            !.ret = None]

\* print(widget): __str__ and the line break
UIElement_str(s, ref) == <<WriteUI(s, ref)>>
print_widget(s, ref) ==
  [s EXCEPT !.log = @ \o UIElement_str(s, ref) \o <<WriteNewline>>, !.ret = None]

\* --------------------------------------------------- the frame, character-wise

\* A string spelled out is a sequence of pieces: the control byte \x02
\* ("STX"), a quote, a backslash, a marker's tag, or other printable text.
PyChars(seq) == [t |-> "chars", v |-> seq]
MARKER_UI_START == <<"STX", "PYNOTE_UI", "STX">>
MARKER_UI_END == <<"STX", "/PYNOTE_UI", "STX">>

\* json.dumps that writes every character of a string as it is
Mut_JsonEscape_verbatim(c) == c

\* json.dumps of one character of a string: control bytes, the quote and the
\* backslash are written as escapes, which are printable
JsonEscape(c) ==
  CASE c = "STX" -> "\\u0002"
    [] c = "\"" -> "\\\""
    [] c = "\\" -> "\\\\"
    [] OTHER -> c

JsonString(seq) == <<"\"">> \o [i \in 1..Len(seq) |-> JsonEscape(seq[i])] \o <<"\"">>

\* json.dumps(self.to_json()) of a Text widget; the other properties are
\* null, true, false and plain words
JsonDumps(s, ref) ==
  <<"{", "\"id\": ">> \o JsonString(<<UIElement_to_json(s, ref).id>>)
    \o <<", \"type\": ">> \o JsonString(<<UIElement_to_json(s, ref).type>>)
    \o <<", \"props\": {\"content\": ">>
    \o JsonString(UIElement_to_json(s, ref).props["content"].v)
    \o <<", \"size\": null, ...}}">>

\* __str__: f"{MARKER_UI_START}{payload}{MARKER_UI_END}"
UIElement_str_chars(s, ref) == MARKER_UI_START \o JsonDumps(s, ref) \o MARKER_UI_END

\* print(widget), character-wise
print_chars(s, ref) ==
  [s EXCEPT !.log = Append(@, LogEntry("stdout", "chars", s.heap[ref].id,
                                        UIElement_str_chars(s, ref) \o <<"\n">>, EmptyDict)),
            !.ret = None]

\* display(widget): sys.stdout.write of the framed payload, character-wise
display_chars(s, ref) ==
  [s EXCEPT !.log = Append(@, LogEntry("stdout", "chars", s.heap[ref].id,
                                        MARKER_UI_START \o JsonDumps(s, ref) \o MARKER_UI_END,
                                        EmptyDict)),
            !.ret = None]

\* _repr_mimebundle_: {} or {"application/vnd.pynote.ui+json": to_json()}
EmptyBundle == [t |-> "dict", v |-> 0]
UIBundle(ref) == [t |-> "bundle", v |-> ref]
UIElement_repr_mimebundle(s, ref) ==
  [s EXCEPT !.ret = IF s.heap[ref]._auto_displayed THEN EmptyBundle ELSE UIBundle(ref)]

\* the module-level entry points
handle_interaction(s, uid, data) == StateManager_update(s, uid, data)

set_current_cell(s, cell_id) == [StateManager_set_current_cell(s, cell_id) EXCEPT !.ret = None]

clear_cell(s, cell_id) == [StateManager_clear_cell(s, cell_id) EXCEPT !.ret = None]

register_comm_target(s, callback) ==
  [StateManager_register_comm_target(s, callback) EXCEPT !.ret = None]

\* ------------------------------------------------------------------ actions

Op(name, ref, uid, cell, data) ==
  [name |-> name, ref |-> ref, uid |-> uid, cell |-> cell, data |-> data]

\* no call in progress: update has not fetched an instance, clear_cell is
\* not in its loop
NoCalls ==
  [upd |-> [pc |-> "idle", uid |-> NoneS, ref |-> 0, data |-> EmptyDict],
   clr |-> [pc |-> "idle", cell |-> NoneS, i |-> 0]]

Commit(s, op) ==
  /\ steps < MaxSteps
  /\ steps' = steps + 1
  /\ instances' = s.instances
  /\ instances_by_cell' = s.by_cell
  /\ current_cell_id' = s.cur
  /\ comm_target' = s.comm
  /\ heap' = s.heap
  /\ last' = [op |-> op, ret |-> s.ret, exc |-> s.exc, log |-> s.log]
  /\ race' = race

Init ==
  /\ instances = EmptyDict
  /\ instances_by_cell = EmptyDict
  /\ current_cell_id = NoneS
  /\ comm_target = NoneS
  /\ heap = <<>>
  /\ last = [op |-> Op("init", 0, NoneS, NoneS, EmptyDict), ret |-> None,
             exc |-> FALSE, log |-> <<>>]
  /\ born = <<>>
  /\ cleared = <<>>
  /\ lastSet = NoneS
  /\ steps = 0
  /\ prevComm = NoneS
  /\ race = NoCalls

SetCurrentCell ==
  \E c \in Cells :
    /\ Commit(set_current_cell(St, c), Op("set_current_cell", 0, NoneS, c, EmptyDict))
    /\ lastSet' = c
    /\ UNCHANGED <<born, cleared, prevComm>>

ClearCell ==
  \E c \in Cells :
    /\ Commit(clear_cell(St, c), Op("clear_cell", 0, NoneS, c, EmptyDict))
    /\ cleared' = [r \in Refs |-> cleared[r] \/ born[r] = c]
    /\ UNCHANGED <<born, lastSet, prevComm>>

ConstructUIElement ==
  /\ Len(heap) < MaxWidgets
  /\ Commit(UIElement_init(St, "UIElement", EmptyDict, None, None),
            Op("UIElement", Len(heap) + 1, uuid4(Len(heap) + 1), NoneS, EmptyDict))
  /\ born' = Append(born, current_cell_id)
  /\ cleared' = Append(cleared, FALSE)
  /\ UNCHANGED <<lastSet, prevComm>>

ConstructSlider ==
  /\ Len(heap) < MaxWidgets
  /\ Commit(Slider_init(St, PyInt(0), PyInt(1)),
            Op("Slider", Len(heap) + 1, uuid4(Len(heap) + 1), NoneS, EmptyDict))
  /\ born' = Append(born, current_cell_id)
  /\ cleared' = Append(cleared, FALSE)
  /\ UNCHANGED <<lastSet, prevComm>>

Get ==
  \E u \in Uids :
    /\ Commit(StateManager_get(St, u), Op("get", 0, u, NoneS, EmptyDict))
    /\ UNCHANGED <<born, cleared, lastSet, prevComm>>

Dispatch ==
  \E u \in Uids, d \in Events :
    /\ Commit(handle_interaction(St, u, d), Op("handle_interaction", 0, u, NoneS, d))
    /\ UNCHANGED <<born, cleared, lastSet, prevComm>>

RegisterCommTarget ==
  \E ch \in Channels :
    /\ Commit(register_comm_target(St, ch), Op("register_comm_target", 0, ch, NoneS, EmptyDict))
    /\ prevComm' = comm_target
    /\ UNCHANGED <<born, cleared, lastSet>>

OnUpdate ==
  \E r \in Refs, cb \in Callbacks :
    /\ Commit(UIElement_on_update(St, r, cb), Op("on_update", r, cb, NoneS, EmptyDict))
    /\ UNCHANGED <<born, cleared, lastSet, prevComm>>

SendUpdate ==
  \E r \in Refs, kw \in Deltas :
    /\ Commit(UIElement_send_update(St, r, kw), Op("send_update", r, heap[r].id, NoneS, kw))
    /\ UNCHANGED <<born, cleared, lastSet, prevComm>>

Hide ==
  \E r \in Refs :
    /\ Commit(UIElement_hide(St, r), Op("hide", r, heap[r].id, NoneS, Dict1("hidden", True)))
    /\ UNCHANGED <<born, cleared, lastSet, prevComm>>

Show ==
  \E r \in Refs :
    /\ Commit(UIElement_show(St, r), Op("show", r, heap[r].id, NoneS, Dict1("hidden", False)))
    /\ UNCHANGED <<born, cleared, lastSet, prevComm>>

SetValue ==
  \E r \in Refs, x \in SetterValues :
    /\ heap[r].kind = "Slider"
    /\ Commit(Slider_value_setter(St, r, x), Op("value", r, heap[r].id, NoneS, Dict1("value", x)))
    /\ UNCHANGED <<born, cleared, lastSet, prevComm>>

Next ==
  \/ SetCurrentCell
  \/ ClearCell
  \/ ConstructUIElement
  \/ ConstructSlider
  \/ Get
  \/ Dispatch
  \/ RegisterCommTarget
  \/ OnUpdate
  \/ SendUpdate
  \/ Hide
  \/ Show
  \/ SetValue

Spec == Init /\ [][Next]_vars

\* ----------------------------------------- the widget variants: interactions

SliderInits == {<<PyInt(0), PyInt(1)>>, <<PyInt(0), PyFloat(5)>>, <<PyFloat(25), PyInt(1)>>}
WEvents == {EmptyDict, Dict1("clicked", True), Dict1("value", PyStr(1)),
            Dict1("value", PyStr(3)), Dict1("value", PyFloat(75)),
            Dict1("value", PyInt(1000)), Dict1("checked", True)}
WSetterValues == {PyInt(7), PyFloat(25)}

SliderArgs(value, step) == [k \in {"value", "step"} |-> IF k = "value" THEN value ELSE step]

WConstructSlider ==
  \E a \in SliderInits :
    /\ Len(heap) < MaxWidgets
    /\ Commit(Slider_init(St, a[1], a[2]),
              Op("Slider", Len(heap) + 1, uuid4(Len(heap) + 1), NoneS, SliderArgs(a[1], a[2])))
    /\ born' = Append(born, current_cell_id)
    /\ cleared' = Append(cleared, FALSE)
    /\ UNCHANGED <<lastSet, prevComm>>

WConstructInput ==
  /\ Len(heap) < MaxWidgets
  /\ Commit(Input_init(St, PyStr(5)),
            Op("Input", Len(heap) + 1, uuid4(Len(heap) + 1), NoneS, Dict1("value", PyStr(5))))
  /\ born' = Append(born, current_cell_id)
  /\ cleared' = Append(cleared, FALSE)
  /\ UNCHANGED <<lastSet, prevComm>>

WConstructToggle ==
  /\ Len(heap) < MaxWidgets
  /\ Commit(Toggle_init(St, False),
            Op("Toggle", Len(heap) + 1, uuid4(Len(heap) + 1), NoneS, Dict1("checked", False)))
  /\ born' = Append(born, current_cell_id)
  /\ cleared' = Append(cleared, FALSE)
  /\ UNCHANGED <<lastSet, prevComm>>

WDispatch ==
  \E r \in Refs, d \in WEvents :
    /\ Commit(handle_interaction(St, heap[r].id, d),
              Op("handle_interaction", 0, heap[r].id, NoneS, d))
    /\ UNCHANGED <<born, cleared, lastSet, prevComm>>

WSetSliderValue ==
  \E r \in Refs, x \in WSetterValues :
    /\ heap[r].kind = "Slider"
    /\ Commit(Slider_value_setter(St, r, x), Op("value", r, heap[r].id, NoneS, Dict1("value", x)))
    /\ UNCHANGED <<born, cleared, lastSet, prevComm>>

WSetInputValue ==
  \E r \in Refs :
    /\ heap[r].kind = "Input"
    /\ Commit(Input_value_setter(St, r, PyStr(3)),
              Op("value", r, heap[r].id, NoneS, Dict1("value", PyStr(3))))
    /\ UNCHANGED <<born, cleared, lastSet, prevComm>>

WSetChecked ==
  \E r \in Refs :
    /\ heap[r].kind = "Toggle"
    /\ Commit(Toggle_checked_setter(St, r, True),
              Op("checked", r, heap[r].id, NoneS, Dict1("checked", True)))
    /\ UNCHANGED <<born, cleared, lastSet, prevComm>>

WidgetsNext ==
  \/ WConstructSlider
  \/ WConstructInput
  \/ WConstructToggle
  \/ WDispatch
  \/ WSetSliderValue
  \/ WSetInputValue
  \/ WSetChecked
  \/ OnUpdate
  \/ SendUpdate

SpecWidgets == Init /\ [][WidgetsNext]_vars

\* ------------------------------------------------------------ the containers

\* the lists of widgets a Group may be constructed with
ChildLists ==
  {<<>>} \cup {<<r>> : r \in Refs} \cup {<<r1, r2>> : r1 \in Refs, r2 \in Refs}

ConstructGroup ==
  \E ch \in ChildLists :
    /\ Len(heap) <= MaxWidgets
    /\ \A i \in 1..Len(ch) : heap[ch[i]].kind # "Group"
    /\ Commit(Group_init(St, ch),
              Op("Group", Len(heap) + 1, uuid4(Len(heap) + 1), NoneS, EmptyDict))
    /\ born' = Append(born, current_cell_id)
    /\ cleared' = Append(cleared, FALSE)
    /\ UNCHANGED <<lastSet, prevComm>>

\* group.children.append(widget)
AppendChild ==
  \E g \in Refs, r \in Refs :
    /\ heap[g].kind = "Group"
    /\ heap[r].kind # "Group"
    /\ Commit([St EXCEPT !.heap[g].children = Append(@, r)],
              Op("children.append", g, heap[r].id, NoneS, EmptyDict))
    /\ UNCHANGED <<born, cleared, lastSet, prevComm>>

\* group.children.pop()
PopChild ==
  \E g \in Refs :
    /\ heap[g].kind = "Group"
    /\ heap[g].children # <<>>
    /\ Commit([St EXCEPT !.heap[g].children = SubSeq(@, 1, Len(@) - 1)],
              Op("children.pop", g, NoneS, NoneS, EmptyDict))
    /\ UNCHANGED <<born, cleared, lastSet, prevComm>>

GroupNext ==
  \/ ConstructSlider
  \/ ConstructGroup
  \/ AppendChild
  \/ PopChild
  \/ SetValue
  \/ Dispatch
  \/ Hide

SpecGroup == Init /\ [][GroupNext]_vars

\* ----------------------------------------------------------------- the form

\* the lists of distinct widgets a Form may be constructed with
FormChildLists ==
  {ch \in ChildLists : \A i, j \in 1..Len(ch) : i # j => ch[i] # ch[j]}

ConstructForm ==
  \E ch \in FormChildLists :
    /\ Len(heap) <= MaxWidgets
    /\ \A i \in 1..Len(ch) : heap[ch[i]].kind \notin {"Group", "Form"}
    /\ Commit(Form_init(St, ch),
              Op("Form", Len(heap) + 1, uuid4(Len(heap) + 1), NoneS, EmptyDict))
    /\ born' = Append(born, current_cell_id)
    /\ cleared' = Append(cleared, FALSE)
    /\ UNCHANGED <<lastSet, prevComm>>

FormNext ==
  \/ WConstructInput
  \/ WConstructToggle
  \/ ConstructForm
  \/ WSetInputValue
  \/ WSetChecked
  \/ WDispatch
  \/ RegisterCommTarget

SpecForm == Init /\ [][FormNext]_vars

\* the event key a variant absorbs
ExpectedKey(kind) == IF kind = "Toggle" THEN "checked" ELSE "value"
\* the value the typed getter of a variant returns
TypedValue(obj) == IF obj.kind = "Toggle" THEN obj._checked ELSE obj._value

\* ------------------------------------------------- host and frontend in step

SyncCallbacks == {NoneS, "cbOk", "cbHide"}   \* cbHide mutates its own widget

SyncOnUpdate ==
  \E r \in Refs, cb \in SyncCallbacks :
    /\ Commit(UIElement_on_update(St, r, cb), Op("on_update", r, cb, NoneS, EmptyDict))
    /\ UNCHANGED <<born, cleared, lastSet, prevComm>>

\* widget.send_update(value=7) / widget.send_update(checked=7): the generic
\* mutation called with the name of a typed property
SendUpdateTyped ==
  \E r \in Refs :
    /\ Commit(UIElement_send_update(St, r, Dict1(ExpectedKey(heap[r].kind), PyInt(7))),
              Op("send_update", r, heap[r].id, NoneS,
                 Dict1(ExpectedKey(heap[r].kind), PyInt(7))))
    /\ UNCHANGED <<born, cleared, lastSet, prevComm>>

SyncNext ==
  \/ WConstructSlider
  \/ WConstructToggle
  \/ RegisterCommTarget
  \/ SyncOnUpdate
  \/ WDispatch
  \/ WSetSliderValue
  \/ WSetChecked
  \/ SendUpdateTyped
  \/ Hide

SpecSync == Init /\ [][SyncNext]_vars

\* -------------------------------------------------------------- the display

\* the items of one display call: widgets and a text
Items == {PyRef(r) : r \in Refs} \cup {PyStr(3)}
ItemLists == {<<>>} \cup {<<x>> : x \in Items} \cup {<<x, y>> : x \in Items, y \in Items}
Gaps == {0, 1, 2}

DisplayArgs(items, inline, gap) ==
  [k \in {"items", "inline", "gap"} |->
     CASE k = "items" -> items [] k = "inline" -> inline [] k = "gap" -> gap]

Display ==
  \E items \in ItemLists, inline \in BOOLEAN, gap \in Gaps :
    /\ Commit(display(St, items, inline, gap),
              Op("display", 0, NoneS, NoneS, DisplayArgs(items, inline, gap)))
    /\ UNCHANGED <<born, cleared, lastSet, prevComm>>

PrintWidget ==
  \E r \in Refs :
    /\ Commit(print_widget(St, r), Op("print", r, heap[r].id, NoneS, EmptyDict))
    /\ UNCHANGED <<born, cleared, lastSet, prevComm>>

ReprMimebundle ==
  \E r \in Refs :
    /\ Commit(UIElement_repr_mimebundle(St, r),
              Op("_repr_mimebundle_", r, heap[r].id, NoneS, EmptyDict))
    /\ UNCHANGED <<born, cleared, lastSet, prevComm>>

DisplayNext ==
  \/ ConstructSlider
  \/ WConstructToggle
  \/ SetValue
  \/ Display
  \/ PrintWidget
  \/ ReprMimebundle

SpecDisplay == Init /\ [][DisplayNext]_vars

\* ------------------------------------------------- containers across cells

OwnerNext ==
  \/ SetCurrentCell
  \/ ClearCell
  \/ ConstructSlider
  \/ ConstructGroup
  \/ ConstructForm

SpecOwner == Init /\ [][OwnerNext]_vars

\* ------------------------------------- an event racing with a cell's clearing

\* The frontend-event thread runs StateManager.update, the execution thread
\* everything else; neither takes a lock, so the two interleave between the
\* statements that read or write the registry.

RaceCallbacks == {NoneS, "cbOk"}

RaceSetCurrentCell == race.clr.pc = "idle" /\ SetCurrentCell
RaceConstruct == race.clr.pc = "idle" /\ ConstructUIElement
RaceOnUpdate ==
  /\ race.clr.pc = "idle"
  /\ \E r \in Refs, cb \in RaceCallbacks :
       /\ Commit(UIElement_on_update(St, r, cb), Op("on_update", r, cb, NoneS, EmptyDict))
       /\ UNCHANGED <<born, cleared, lastSet, prevComm>>

\* update: instance = cls.get(uid); return False when it is None
UpdateGet ==
  \E u \in Uids, d \in Events :
    LET g == StateManager_get(St, u)
    IN /\ race.upd.pc = "idle"
       /\ steps < MaxSteps
       /\ steps' = steps + 1
       /\ IF g.ret # None
          THEN /\ race' = [race EXCEPT !.upd = [pc |-> "got", uid |-> u, ref |-> g.ret.v,
                                                data |-> d]]
               /\ last' = last
          ELSE /\ race' = race
               /\ last' = [op |-> Op("handle_interaction", 0, u, NoneS, d), ret |-> False,
                           exc |-> FALSE, log |-> <<>>]
       /\ UNCHANGED <<instances, instances_by_cell, current_cell_id, comm_target, heap,
                      born, cleared, lastSet, prevComm>>

\* update: instance.handle_interaction(data); return True
UpdateCall ==
  LET h == Call_handle_interaction(St, race.upd.ref, race.upd.data)
  IN /\ race.upd.pc = "got"
     /\ race' = [race EXCEPT !.upd = NoCalls.upd]
     /\ instances' = h.instances
     /\ instances_by_cell' = h.by_cell
     /\ current_cell_id' = h.cur
     /\ comm_target' = h.comm
     /\ heap' = h.heap
     /\ last' = [op |-> Op("handle_interaction", 0, race.upd.uid, NoneS, race.upd.data),
                 ret |-> IF h.exc THEN None ELSE True, exc |-> h.exc, log |-> h.log]
     /\ UNCHANGED <<born, cleared, lastSet, steps, prevComm>>

\* clear_cell: if cell_id in cls._instances_by_cell
ClearStart ==
  \E c \in Cells :
    /\ race.clr.pc = "idle"
    /\ steps < MaxSteps
    /\ steps' = steps + 1
    /\ cleared' = [r \in Refs |-> cleared[r] \/ born[r] = c]
    /\ IF c \in DOMAIN instances_by_cell
       THEN /\ race' = [race EXCEPT !.clr = [pc |-> "loop", cell |-> c, i |-> 1]]
            /\ last' = last
       ELSE /\ race' = race
            /\ last' = [op |-> Op("clear_cell", 0, NoneS, c, EmptyDict), ret |-> None,
                        exc |-> FALSE, log |-> <<>>]
    /\ UNCHANGED <<instances, instances_by_cell, current_cell_id, comm_target, heap,
                   born, lastSet, prevComm>>

\* clear_cell: one turn of the loop over the cell's ids, and after the last
\* one del cls._instances_by_cell[cell_id]
ClearStep ==
  LET c == race.clr.cell
      l == instances_by_cell[c]
      i == race.clr.i
  IN /\ race.clr.pc = "loop"
     /\ IF i <= Len(l)
        THEN /\ instances' = MapRemove(instances, {l[i]})
             /\ race' = [race EXCEPT !.clr.i = i + 1]
             /\ UNCHANGED <<instances_by_cell, last>>
        ELSE /\ instances_by_cell' = MapRemove(instances_by_cell, {c})
             /\ race' = [race EXCEPT !.clr = NoCalls.clr]
             /\ last' = [op |-> Op("clear_cell", 0, NoneS, c, EmptyDict), ret |-> None,
                         exc |-> FALSE, log |-> <<>>]
             /\ UNCHANGED instances
     /\ UNCHANGED <<current_cell_id, comm_target, heap, born, cleared, lastSet, steps,
                    prevComm>>

RaceNext ==
  \/ RaceSetCurrentCell
  \/ RaceConstruct
  \/ RaceOnUpdate
  \/ UpdateGet
  \/ UpdateCall
  \/ ClearStart
  \/ ClearStep

SpecRace == Init /\ [][RaceNext]_vars

\* ---------------------------------------------------- framing on stdout

Pieces == {"STX", "PYNOTE_UI", "/PYNOTE_UI", "\"", "\\", "a"}

RECURSIVE CharStrings(_)
CharStrings(n) ==
  IF n = 0 THEN {<<>>}
  ELSE CharStrings(n - 1) \cup
       {Append(l, c) : l \in {m \in CharStrings(n - 1) : Len(m) = n - 1}, c \in Pieces}

ConstructText ==
  \E content \in CharStrings(MaxStrLen) :
    /\ heap = <<>>
    /\ Commit(Text_init(St, PyChars(content)),
              Op("Text", 1, uuid4(1), NoneS, Dict1("content", PyChars(content))))
    /\ born' = Append(born, current_cell_id)
    /\ cleared' = Append(cleared, FALSE)
    /\ UNCHANGED <<lastSet, prevComm>>

PrintChars ==
  \E r \in Refs :
    /\ heap[r].kind = "Text"
    /\ Commit(print_chars(St, r), Op("print_chars", r, heap[r].id, NoneS, EmptyDict))
    /\ UNCHANGED <<born, cleared, lastSet, prevComm>>

DisplayChars ==
  \E r \in Refs :
    /\ heap[r].kind = "Text"
    /\ Commit(display_chars(St, r), Op("display_chars", r, heap[r].id, NoneS, EmptyDict))
    /\ UNCHANGED <<born, cleared, lastSet, prevComm>>

FrameNext ==
  \/ ConstructText
  \/ PrintChars
  \/ DisplayChars
  \/ SetCurrentCell

SpecFrame == Init /\ [][FrameNext]_vars

\* ------------------------------------------ construction inside a callback

NestedCallbacks == {NoneS, "cbNew"}

NestedOnUpdate ==
  \E r \in Refs, cb \in NestedCallbacks :
    /\ Commit(UIElement_on_update(St, r, cb), Op("on_update", r, cb, NoneS, EmptyDict))
    /\ UNCHANGED <<born, cleared, lastSet, prevComm>>

\* a dispatch whose callback may construct a widget: the new widget's cell of
\* birth is the one recorded at the time of the dispatch
NestedDispatch ==
  \E u \in Uids, d \in Events :
    /\ Len(handle_interaction(St, u, d).heap) <= MaxWidgets
    /\ Commit(handle_interaction(St, u, d), Op("handle_interaction", 0, u, NoneS, d))
    /\ born' = IF Len(heap') > Len(heap) THEN Append(born, current_cell_id) ELSE born
    /\ cleared' = IF Len(heap') > Len(heap) THEN Append(cleared, FALSE) ELSE cleared
    /\ UNCHANGED <<lastSet, prevComm>>

NestedNext ==
  \/ SetCurrentCell
  \/ ClearCell
  \/ ConstructUIElement
  \/ NestedOnUpdate
  \/ NestedDispatch

SpecNested == Init /\ [][NestedNext]_vars

\* ------------------------------------------------------------------- claims

GetNow(uid) == StateManager_get(St, uid).ret
MutationOps == {"send_update", "hide", "show", "value"}
IsCommCall(e) == e.f = "comm"
IsHandlerCall(e) == e.f = "handle_interaction"
IsCallbackCall(e) == e.f = "on_update"
\* the step just taken is a completed top-level call named in ops
Did(ops) == steps' = steps + 1 /\ last'.op.name \in ops

\* C1: a widget constructed while cell c was active resolves through get to
\* itself until clear_cell(c) is called, and to None ever after.
C1_GetUntilClearCell ==
  \A r \in Refs :
    born[r] # NoneS =>
      GetNow(heap[r].id) = (IF cleared[r] THEN None ELSE PyRef(r))

\* C2: clear_cell(c) removes exactly the widgets constructed while c was the
\* active cell: those no longer resolve, every other widget resolves as
\* before, and every other cell's list of ids is unchanged.
C2_ClearCellRemovesExactly ==
  [][Did({"clear_cell"}) =>
       LET c == last'.op.cell
       IN /\ \A r \in Refs :
               IF born[r] = c
               THEN heap[r].id \notin DOMAIN instances'
               ELSE /\ (heap[r].id \in DOMAIN instances') = (heap[r].id \in DOMAIN instances)
                    /\ heap[r].id \in DOMAIN instances =>
                          instances'[heap[r].id] = instances[heap[r].id]
          /\ \A c2 \in DOMAIN instances_by_cell \ {c} :
               /\ c2 \in DOMAIN instances_by_cell'
               /\ instances_by_cell'[c2] = instances_by_cell[c2]]_vars

\* C3: dispatch returns True exactly when the id is registered at the call;
\* then the widget's handle_interaction ran exactly once with the event data;
\* when it returns False no handler and no callback ran.
C3_DispatchTrueIffRegistered ==
  [][Did({"handle_interaction"}) =>
       LET u == last'.op.uid
           h == SelectSeq(last'.log, IsHandlerCall)
       IN /\ (last'.ret = True) = (u \in DOMAIN instances)
          /\ last'.ret = True =>
               Len(h) = 1 /\ h[1].uid = u /\ h[1].data = last'.op.data
          /\ last'.ret = False => last'.log = <<>>]_vars

\* C4: dispatch on an id that is not registered (removed by clear_cell, or
\* never registered) returns False, raises nothing, and leaves the registry
\* maps, the active cell, the channel and every widget unchanged.
C4_DispatchUnknownIsFalse ==
  [][(Did({"handle_interaction"}) /\ last'.op.uid \notin DOMAIN instances) =>
       /\ last'.ret = False
       /\ ~last'.exc
       /\ last'.log = <<>>
       /\ instances' = instances
       /\ instances_by_cell' = instances_by_cell
       /\ current_cell_id' = current_cell_id
       /\ comm_target' = comm_target
       /\ heap' = heap]_vars

C4_Witness ==
  /\ last.op.name = "handle_interaction"
  /\ last.ret = False
  /\ \E r \in Refs : heap[r].id = last.op.uid /\ cleared[r] /\ Truthy(born[r])

\* C5: with a channel installed, a property mutation calls the channel
\* exactly once, with the widget's id and the delta of the mutated names, and
\* the property map already holds the new values when the channel is called.
C5_MutationPushesOnce ==
  (last.op.name \in MutationOps /\ Truthy(comm_target)) =>
     LET c == SelectSeq(last.log, IsCommCall)
     IN /\ Len(c) = 1
        /\ c[1].who = comm_target
        /\ c[1].uid = heap[last.op.ref].id
        /\ c[1].data = last.op.data
        /\ \A k \in DOMAIN last.op.data :
             k \in DOMAIN c[1].props /\ c[1].props[k] = last.op.data[k]

C5_Witness ==
  /\ last.op.name = "value"
  /\ comm_target = "ch1"
  /\ Len(last.log) = 1
  /\ last.log[1].props["value"] = PyInt(7)

\* C6: with no channel installed a property mutation calls no channel and
\* raises nothing, the property map takes the new value, and the registry
\* maps and the active cell are unchanged.
C6_NoChannelSilent ==
  [][(Did(MutationOps) /\ ~Truthy(comm_target)) =>
       /\ last'.log = <<>>
       /\ ~last'.exc
       /\ \A k \in DOMAIN last'.op.data :
            /\ k \in DOMAIN heap'[last'.op.ref].props
            /\ heap'[last'.op.ref].props[k] = last'.op.data[k]
       /\ instances' = instances
       /\ instances_by_cell' = instances_by_cell
       /\ current_cell_id' = current_cell_id
       /\ comm_target' = comm_target]_vars

C6_Witness ==
  /\ last.op.name = "hide"
  /\ comm_target = NoneS
  /\ last.log = <<>>
  /\ heap[last.op.ref].props["hidden"] = True

\* C7: when the installed channel raises during a push, the setter returns
\* normally (no exception reaches its caller), the channel stays installed
\* and the registry maps are unchanged.
C7_ChannelFailureCaught ==
  [][(Did(MutationOps) /\ comm_target = "chRaise") =>
       /\ ~last'.exc
       /\ comm_target' = comm_target
       /\ instances' = instances
       /\ instances_by_cell' = instances_by_cell]_vars

C7_Witness ==
  /\ last.op.name \in MutationOps
  /\ comm_target = "chRaise"
  /\ Len(SelectSeq(last.log, IsCommCall)) = 1
  /\ ~last.exc

\* C8: every id in any cell's list of ids is a key of _instances.
C8_CellIdsRegistered ==
  \A c \in DOMAIN instances_by_cell :
    \A i \in 1..Len(instances_by_cell[c]) :
      instances_by_cell[c][i] \in DOMAIN instances

C8_Witness ==
  /\ \E c \in DOMAIN instances_by_cell : instances_by_cell[c] # <<>>
  /\ \E r \in Refs : cleared[r] /\ heap[r].id \notin DOMAIN instances

\* C9: an id is in the list of at most one cell and at most once in it, and
\* each list is in creation order.
C9_IdUnderOneCellOnce ==
  \A c1 \in DOMAIN instances_by_cell, c2 \in DOMAIN instances_by_cell :
    \A i \in 1..Len(instances_by_cell[c1]), j \in 1..Len(instances_by_cell[c2]) :
      /\ instances_by_cell[c1][i] = instances_by_cell[c2][j] => (c1 = c2 /\ i = j)
      /\ (c1 = c2 /\ i < j) =>
           RefOf(St, instances_by_cell[c1][i]) < RefOf(St, instances_by_cell[c1][j])

C9_Witness ==
  \E c \in DOMAIN instances_by_cell : Len(instances_by_cell[c]) = 2

\* C10: the active cell is the argument of the latest set_current_cell (None
\* before the first); no other operation changes it.
C10_ActiveCellIsLastSet == current_cell_id = lastSet

C10_Witness ==
  /\ last.op.name = "clear_cell"
  /\ last.op.cell = current_cell_id
  /\ \E r \in Refs : born[r] = current_cell_id /\ heap[r].id \notin DOMAIN instances

\* C11: construction registers the widget under its id, and, whenever an
\* active cell has been recorded (whatever the identifier), appends the id to
\* that cell's list, creating it if absent; only with no active cell are the
\* cell lists left alone.
C11_RegisterUnderActiveCell ==
  [][Did({"UIElement", "Slider"}) =>
       LET u == last'.op.uid
           old == IF current_cell_id \in DOMAIN instances_by_cell
                  THEN instances_by_cell[current_cell_id] ELSE <<>>
       IN /\ u \in DOMAIN instances' /\ instances'[u] = last'.op.ref
          /\ IF current_cell_id # NoneS
             THEN /\ current_cell_id \in DOMAIN instances_by_cell'
                  /\ instances_by_cell'[current_cell_id] = Append(old, u)
             ELSE instances_by_cell' = instances_by_cell]_vars

\* C12: a widget constructed while no active cell was set stays registered,
\* whatever clear_cell and set_current_cell calls follow.
C12_OrphanNeverRemoved ==
  \A r \in Refs : born[r] = NoneS => GetNow(heap[r].id) = PyRef(r)

C12_Witness ==
  /\ last.op.name = "clear_cell"
  /\ \E r \in Refs : born[r] = NoneS
  /\ \E r \in Refs : born[r] = last.op.cell /\ heap[r].id \notin DOMAIN instances

\* C13: clear_cell on a cell that owns no widgets raises nothing and leaves
\* the registry unchanged; clearing twice gives the state of clearing once.
C13_ClearCellNoOp ==
  [][/\ (Did({"clear_cell"}) /\ last'.op.cell \notin DOMAIN instances_by_cell) =>
          /\ ~last'.exc
          /\ instances' = instances
          /\ instances_by_cell' = instances_by_cell
          /\ current_cell_id' = current_cell_id
          /\ comm_target' = comm_target
          /\ heap' = heap
     /\ \A c \in Cells :
          clear_cell(clear_cell(St, c), c) = clear_cell(St, c)]_vars

C13_Witness ==
  /\ last.op.name = "clear_cell"
  /\ ~last.exc
  /\ \A r \in Refs : born[r] # last.op.cell
  /\ DOMAIN instances_by_cell # {}

\* C14: the ids of the widgets constructed so far are pairwise distinct (so
\* an evicted widget's id is not given out again), and no step changes the
\* id of a widget.
C14_IdsDistinctAndFixed ==
  [][/\ \A r \in Refs : heap'[r].id = heap[r].id
     /\ \A r1 \in 1..Len(heap'), r2 \in 1..Len(heap') :
          r1 # r2 => heap'[r1].id # heap'[r2].id]_vars

C14_Witness ==
  \E r1 \in Refs, r2 \in Refs :
    /\ r1 < r2
    /\ born[r1] = born[r2]
    /\ heap[r1].id \notin DOMAIN instances
    /\ heap[r2].id \in DOMAIN instances

\* C15: register_comm_target installs its argument as the one channel; every
\* push calls the channel installed at that moment and never one it replaced.
C15_OnlyLatestChannelCalled ==
  [][/\ IF Did({"register_comm_target"})
        THEN comm_target' = last'.op.uid
        ELSE comm_target' = comm_target
     /\ \A i \in 1..Len(last'.log) :
          (steps' = steps + 1 /\ IsCommCall(last'.log[i])) =>
             last'.log[i].who = comm_target]_vars

C15_Witness ==
  /\ last.op.name \in MutationOps
  /\ prevComm = "chRaise"
  /\ comm_target = "ch1"
  /\ Len(SelectSeq(last.log, IsCommCall)) = 1
  /\ last.log[1].who = "ch1"

\* C16: to_json() is {id, type = class name, props = the property map}: right
\* after construction it carries the constructor's values, right after a
\* property mutation the mutated values, and right after an absorbed
\* interaction the absorbed value.
C16_ToJsonReflectsProps ==
  /\ \A r \in Refs :
       /\ UIElement_to_json(St, r).id = uuid4(r)
       /\ UIElement_to_json(St, r).props = heap[r].props
  /\ last.op.name \in {"Slider", "Input", "Toggle"} =>
       /\ UIElement_to_json(St, last.op.ref).type = last.op.name
       /\ UIElement_to_json(St, last.op.ref).id = last.op.uid
       /\ \A k \in DOMAIN last.op.data :
            UIElement_to_json(St, last.op.ref).props[k] = last.op.data[k]
  /\ last.op.name \in MutationOps \cup {"checked"} =>
       \A k \in DOMAIN last.op.data :
         /\ k \in DOMAIN UIElement_to_json(St, last.op.ref).props
         /\ UIElement_to_json(St, last.op.ref).props[k] = last.op.data[k]
  /\ (last.op.name = "handle_interaction" /\ last.ret = True) =>
       LET r == RefOf(St, last.op.uid)
           k == ExpectedKey(heap[r].kind)
       IN k \in DOMAIN last.op.data =>
            /\ UIElement_to_json(St, r).props[k] = TypedValue(heap[r])
            /\ heap[r].kind \in {"Input", "Toggle"} =>
                 UIElement_to_json(St, r).props[k] = last.op.data[k]

C16_Witness ==
  /\ last.op.name = "handle_interaction"
  /\ last.ret = True
  /\ last.op.data = Dict1("value", PyStr(1))
  /\ UIElement_to_json(St, RefOf(St, last.op.uid)).type = "Slider"
  /\ UIElement_to_json(St, RefOf(St, last.op.uid)).props["value"] = PyInt(7)

\* C17: a container's serialization shows, for each widget of its children
\* list at the time of the call, that widget's own serialization.
C17_ContainerSerializesChildrenNow ==
  \A g \in Refs :
    heap[g].kind = "Group" =>
      SerializedChildren(St, g) =
        [i \in 1..Len(heap[g].children) |-> UIElement_to_json(St, heap[g].children[i])]

\* C18 as stated: an absorbed value becomes an int when the step is an int
\* and a float when the step is a float, whatever value the slider holds.
C18_TypeFollowsStep ==
  [][(/\ Did({"handle_interaction"})
      /\ last'.ret = True
      /\ heap[RefOf(St, last'.op.uid)].kind = "Slider"
      /\ "value" \in DOMAIN last'.op.data) =>
       LET r == RefOf(St, last'.op.uid)
       IN heap'[r]._value.t = heap[r].step.t]_vars

\* C18 amended: an absorbed value becomes a float when the step is a float,
\* and otherwise takes the type of the value the slider held before the
\* event: "7" becomes 7 for an int value with an int step, and 7.0 for a
\* float step or a float value. Where the conversion itself raises, the
\* slider is left as it was and no callback is called.
C18_TypeFollowsStepOrCurrentValue ==
  [][(/\ Did({"handle_interaction"})
      /\ last'.op.uid \in DOMAIN instances
      /\ heap[RefOf(St, last'.op.uid)].kind = "Slider"
      /\ "value" \in DOMAIN last'.op.data) =>
       LET r == RefOf(St, last'.op.uid)
           new == heap'[r]._value
           target == IF heap[r].step.t = "float" THEN "float" ELSE heap[r]._value.t
           absorbed == ~last'.exc \/ SelectSeq(last'.log, IsCallbackCall) # <<>>
       IN IF absorbed
          THEN /\ new.t = target
               /\ new.t \in {"int", "float"}
               /\ last'.op.data["value"] = PyStr(1) =>
                    new = IF target = "int" THEN PyInt(7) ELSE PyFloat(70)
               /\ heap'[r].props["value"] = new
          ELSE heap' = heap]_vars

C18_Witness ==
  /\ last.op.name = "handle_interaction"
  /\ last.ret = True
  /\ last.op.data = Dict1("value", PyStr(1))
  /\ \E r \in Refs :
       /\ heap[r].id = last.op.uid
       /\ heap[r].kind = "Slider"
       /\ heap[r].step = PyInt(1)
       /\ heap[r]._value = PyFloat(70)

\* C19: dispatching any event to a registered widget whose callback does not
\* raise completes without an exception and returns True.
C19_MalformedEventNeverRaises ==
  [][(/\ Did({"handle_interaction"})
      /\ last'.op.uid \in DOMAIN instances
      /\ heap[RefOf(St, last'.op.uid)]._on_update # "cbRaise") =>
       (~last'.exc /\ last'.ret = True)]_vars

\* C20: an event without the variant's expected key leaves the widget's
\* internal value and property map as they were, adds no key, and the
\* callback, if any, is still called once with the event.
C20_PartialEventChangesNothing ==
  [][(/\ Did({"handle_interaction"})
      /\ last'.op.uid \in DOMAIN instances
      /\ ExpectedKey(heap[RefOf(St, last'.op.uid)].kind) \notin DOMAIN last'.op.data) =>
       LET r == RefOf(St, last'.op.uid)
           c == SelectSeq(last'.log, IsCallbackCall)
       IN /\ heap'[r].props = heap[r].props
          /\ TypedValue(heap'[r]) = TypedValue(heap[r])
          /\ heap' = heap
          /\ IF Truthy(heap[r]._on_update)
             THEN Len(c) = 1 /\ c[1].data = last'.op.data /\ c[1].who = heap[r]._on_update
             ELSE c = <<>>]_vars

C20_Witness ==
  /\ last.op.name = "handle_interaction"
  /\ last.op.data = Dict1("clicked", True)
  /\ last.ret = True
  /\ heap[RefOf(St, last.op.uid)].kind = "Toggle"
  /\ Len(SelectSeq(last.log, IsCallbackCall)) = 1

\* C21: a widget keeps one callback, the one of the latest on_update call:
\* on_update(g) replaces the stored callback, no other call touches it, and a
\* dispatch to the widget calls the stored callback exactly once with the
\* event and calls no other; with no callback stored the dispatch still
\* absorbs the event's value and returns True.
C21_LastCallbackWins ==
  [][/\ Did({"on_update"}) =>
          \A r \in Refs :
            heap'[r]._on_update =
              IF r = last'.op.ref THEN last'.op.uid ELSE heap[r]._on_update
     /\ (steps' = steps + 1 /\ last'.op.name # "on_update") =>
          \A r \in Refs : heap'[r]._on_update = heap[r]._on_update
     /\ (Did({"handle_interaction"}) /\ last'.op.uid \in DOMAIN instances) =>
          LET r == RefOf(St, last'.op.uid)
              cb == heap[r]._on_update
              c == SelectSeq(last'.log, IsCallbackCall)
              k == ExpectedKey(heap[r].kind)
          IN IF Truthy(cb)
             THEN Len(c) = 1 /\ c[1].who = cb /\ c[1].data = last'.op.data
             ELSE /\ c = <<>>
                  /\ last'.ret = True
                  /\ ~last'.exc
                  /\ (heap[r].kind \in {"Slider", "Input", "Toggle"}
                        /\ k \in DOMAIN last'.op.data) =>
                       heap'[r].props[k] = TypedValue(heap'[r])]_vars

\* the forms a widget is a child of
FormsOf(r) ==
  {f \in Refs : heap[f].kind = "Form" /\ r \in ListItems(heap[f].children)}

\* C22: setting the value of an input that is a child of a Form calls no
\* channel; the push waits for the submit.
C22_FormChildSetterDefersPush ==
  [][(Did({"value", "checked"}) /\ FormsOf(last'.op.ref) # {}) =>
       SelectSeq(last'.log, IsCommCall) = <<>>]_vars

\* C23: once a submit has delivered an event to a child of a Form, Form.value
\* holds one entry for each input child (text inputs and toggles alike, two
\* of a kind included) and the entry equals the child's current value.
C23_FormValueHoldsEveryChild ==
  (last.op.name = "handle_interaction" /\ last.ret = True) =>
     \A f \in FormsOf(RefOf(St, last.op.uid)) :
       LET v == Form_value(St, f)
           ch == heap[f].children
       IN /\ Cardinality(DOMAIN v) = Len(ch)
          /\ \A i \in 1..Len(ch) :
               /\ LowerName[heap[ch[i]].kind] \in DOMAIN v
               /\ v[LowerName[heap[ch[i]].kind]] = TypedValue(heap[ch[i]])

\* C24: for every widget with a typed field, the property map entry of that
\* name equals the value the typed getter returns, after any public call.
C24_PropsMatchTypedField ==
  \A r \in Refs :
    heap[r].kind \in {"Slider", "Input", "Toggle"} =>
      /\ ExpectedKey(heap[r].kind) \in DOMAIN heap[r].props
      /\ heap[r].props[ExpectedKey(heap[r].kind)] = TypedValue(heap[r])

\* a value as the frontend compares it: one number type, and a numeric
\* string counts as its number
JsonValue(x) ==
  CASE x.t = "int" -> PyFloat(10 * x.v)
    [] x.t = "str" /\ StrIsNum[x.v] -> PyFloat(StrNum[x.v])
    [] OTHER -> x
JsonEq(p, q) == DOMAIN p = DOMAIN q /\ \A k \in DOMAIN p : JsonValue(p[k]) = JsonValue(q[k])

\* the frontend's copy of a widget's properties after one logged call: the
\* value it sent in an event of its own, or a delta the channel delivered
FrontendApply(props, e, uid, kind) ==
  CASE e.uid # uid -> props
    [] e.f = "handle_interaction" /\ ExpectedKey(kind) \in DOMAIN e.data ->
         DictUpdate(props, Dict1(ExpectedKey(kind), e.data[ExpectedKey(kind)]))
    [] e.f = "comm" /\ e.who = "ch1" -> DictUpdate(props, e.data)
    [] OTHER -> props

RECURSIVE FrontendAfter(_, _, _, _)
FrontendAfter(props, log, uid, kind) ==
  IF log = <<>> THEN props
  ELSE FrontendAfter(FrontendApply(props, Head(log), uid, kind), Tail(log), uid, kind)

\* C25: with a working channel installed, a frontend copy that agrees with
\* the host before a call, and applies the deltas delivered and the values
\* it sent during the call, agrees with the host's property map after it.
C25_NoDrift ==
  [][(steps' = steps + 1 /\ comm_target = "ch1" /\ comm_target' = "ch1") =>
       \A r \in Refs :
         JsonEq(FrontendAfter(heap[r].props, last'.log, heap[r].id, heap[r].kind),
                heap'[r].props)]_vars

\* the (widget, delta) pairs a sequence of logged calls hands to the channel
Pushed(log) ==
  [i \in 1..Len(SelectSeq(log, IsCommCall)) |->
     [uid |-> SelectSeq(log, IsCommCall)[i].uid, data |-> SelectSeq(log, IsCommCall)[i].data]]
IsHideCallback(e) == e.f = "on_update" /\ e.who = "cbHide"

\* C26: with a channel installed, the deltas handed to the channel during a
\* call are exactly the property mutations made during it, in order: one for
\* a setter, send_update, hide or show; one for each mutation a callback
\* makes during a dispatch; none otherwise. The property map already holds
\* the delta when the channel is called.
C26_PushesAreTheMutations ==
  (Truthy(comm_target) /\ last.op.name # "register_comm_target") =>
     /\ Pushed(last.log) =
          IF last.op.name \in MutationOps \cup {"checked"}
          THEN <<[uid |-> last.op.uid, data |-> last.op.data]>>
          ELSE [i \in 1..Len(SelectSeq(last.log, IsHideCallback)) |->
                  [uid |-> SelectSeq(last.log, IsHideCallback)[i].uid,
                   data |-> Dict1("hidden", True)]]
     /\ \A i \in 1..Len(last.log) :
          IsCommCall(last.log[i]) =>
            /\ \A k \in DOMAIN last.log[i].data :
                 /\ k \in DOMAIN last.log[i].props
                 /\ last.log[i].props[k] = last.log[i].data[k]
            /\ last.op.name = "handle_interaction" =>
                 (i > 1 /\ IsHideCallback(last.log[i - 1]))

C26_Witness ==
  /\ comm_target = "ch1"
  /\ last.op.name = "handle_interaction"
  /\ last.ret = True
  /\ Len(last.log) = 3
  /\ IsHideCallback(last.log[2])
  /\ IsCommCall(last.log[3])
  /\ \E r \in Refs : heap[r].id = last.op.uid /\ "hidden" \in DOMAIN heap[r].props

IsItemWrite(e) == e.f = "stdout" /\ e.who \in {"ui", "text"}
\* what display is to write for one item
ItemWrite(x) == IF HasToJson(x) THEN WriteUI(St, x.v) ELSE WriteText(StrTable[x.v])

\* C27: display writes, in argument order, one framed payload for each
\* widget item, carrying its to_json() at the time of the call, and the text
\* of every other item; nothing is skipped, duplicated or left for later.
C27_DisplayWritesEveryItemInOrder ==
  last.op.name = "display" =>
    LET items == last.op.data["items"]
        w == SelectSeq(last.log, IsItemWrite)
    IN /\ Len(w) = Len(items)
       /\ \A i \in 1..Len(items) :
            IF items[i].t = "ref"
            THEN /\ w[i].who = "ui"
                 /\ w[i].uid = heap[items[i].v].id
                 /\ w[i].props = heap[items[i].v].props
            ELSE /\ w[i].who = "text"
                 /\ w[i].uid = StrTable[items[i].v]

C27_Witness ==
  /\ last.op.name = "display"
  /\ last.op.data["items"] = <<PyStr(3), PyRef(1)>>
  /\ last.op.data["inline"] = TRUE
  /\ heap[1].kind = "Slider"
  /\ heap[1].props["value"] = PyInt(7)
  /\ Len(SelectSeq(last.log, IsItemWrite)) = 2

\* the output from the first item on, as the separator rule gives it: the
\* items with gap separators between neighbours (spaces inline, line breaks
\* stacked), then one line break in stacked mode and nothing inline
SeparatedOutput(items, inline, gap) ==
  [j \in 1..(Len(items) + (Len(items) - 1) * gap + (IF inline THEN 0 ELSE 1)) |->
     IF j > Len(items) + (Len(items) - 1) * gap THEN WriteNewline
     ELSE IF (j - 1) % (gap + 1) = 0 THEN ItemWrite(items[((j - 1) \div (gap + 1)) + 1])
     ELSE IF inline THEN WriteSpace ELSE WriteNewline]

FromFirstItem(log) ==
  LET at == {i \in 1..Len(log) : IsItemWrite(log[i])}
  IN IF at = {} THEN <<>>
     ELSE SubSeq(log, CHOOSE i \in at : \A k \in at : i <= k, Len(log))

\* C28: from its first item on, display's output is the items with exactly
\* gap separators between neighbours (spaces when inline, line breaks when
\* stacked) for every mix of widgets and texts, followed by nothing when
\* inline and by one line break when stacked.
C28_DisplaySeparatesItems ==
  (last.op.name = "display" /\ last.op.data["items"] # <<>>) =>
     FromFirstItem(last.log) =
       SeparatedOutput(last.op.data["items"], last.op.data["inline"], last.op.data["gap"])

\* C29: right after a widget was written to stdout by display or print, its
\* _repr_mimebundle_ returns the empty bundle; right after construction it
\* returns the widget's bundle.
C29_DisplayedWidgetRendersOnce ==
  [][/\ Did({"display", "print"}) =>
          \A r \in Refs :
            (\E i \in 1..Len(last'.log) :
               last'.log[i].who = "ui" /\ last'.log[i].uid = heap[r].id) =>
              UIElement_repr_mimebundle([St EXCEPT !.heap = heap'], r).ret = EmptyBundle
     /\ Did({"Slider", "Toggle"}) =>
          UIElement_repr_mimebundle([St EXCEPT !.heap = heap'], last'.op.ref).ret
            = UIBundle(last'.op.ref)]_vars

\* C30: a dispatch during which the widget's callback is called raises
\* nothing out of handle_interaction, whatever the callback does: the call
\* completes with a boolean result.
C30_CallbackFailureSwallowed ==
  [][(Did({"handle_interaction"}) /\ SelectSeq(last'.log, IsCallbackCall) # <<>>) =>
       (~last'.exc /\ last'.ret \in {True, False})]_vars

\* C31: when the callback is called during a dispatch, the property map it
\* can read already holds the value of the event being handled: the value
\* the widget holds when the dispatch is over, and for Input and Toggle the
\* very value the event carried.
C31_ValueSetBeforeCallback ==
  [][(/\ Did({"handle_interaction"})
      /\ last'.op.uid \in DOMAIN instances
      /\ ExpectedKey(heap[RefOf(St, last'.op.uid)].kind) \in DOMAIN last'.op.data) =>
       LET r == RefOf(St, last'.op.uid)
           k == ExpectedKey(heap[r].kind)
           c == SelectSeq(last'.log, IsCallbackCall)
       IN \A i \in 1..Len(c) :
            /\ c[i].props[k] = TypedValue(heap'[r])
            /\ c[i].props[k] = heap'[r].props[k]
            /\ heap[r].kind \in {"Input", "Toggle"} => c[i].props[k] = last'.op.data[k]
            /\ heap[r].kind = "Slider" =>
                 JsonValue(c[i].props[k]) \in
                   {JsonValue(Py_int(last'.op.data[k]).val),
                    JsonValue(Py_float(last'.op.data[k]).val)}]_vars

C31_Witness ==
  /\ last.op.name = "handle_interaction"
  /\ last.op.data = Dict1("value", PyInt(1000))
  /\ Len(last.log) = 2
  /\ IsCallbackCall(last.log[2])
  /\ last.log[2].who = "cbOk"
  /\ last.log[1].props["value"] = PyStr(5)
  /\ last.log[2].props["value"] = PyInt(1000)

\* the containers a widget is a child of
ContainersOf(r) ==
  {g \in Refs : heap[g].kind \in {"Group", "Form"} /\ r \in ListItems(heap[g].children)}

\* C32: every child of a container that get still resolves is itself
\* resolved by get, and the container's serialization holds no entry of an
\* evicted widget.
C32_LiveContainerHasLiveChildren ==
  \A g \in Refs :
    (heap[g].kind \in {"Group", "Form"} /\ GetNow(heap[g].id) # None) =>
       /\ \A r \in ListItems(heap[g].children) : GetNow(heap[r].id) # None
       /\ \A i \in 1..Len(SerializedChildren(St, g)) :
            GetNow(SerializedChildren(St, g)[i].id) # None

\* C33: when an update for widget w runs alongside a clear_cell, it ends in
\* one of two ways: the handler runs while w is still registered, nothing is
\* raised and True is returned; or False is returned and neither the handler
\* nor the callback has run.
C33_RaceHasTwoOutcomes ==
  [][/\ (race.upd.pc = "got" /\ race'.upd.pc = "idle") =>
          /\ race.upd.uid \in DOMAIN instances
          /\ ~last'.exc
          /\ last'.ret = True
     /\ (race.upd.pc = "idle" /\ race' = race /\ steps' = steps + 1
           /\ last'.op.name = "handle_interaction") =>
          /\ last'.ret = False
          /\ last'.log = <<>>]_vars

\* whether the sequence m occurs in the sequence l
Occurs(m, l) == \E i \in 1..(Len(l) - Len(m) + 1) : SubSeq(l, i, i + Len(m) - 1) = m

\* C34: a printed widget block starts with the start marker and ends with
\* the end marker, and the payload between them holds no control byte, hence
\* neither marker, whatever the widget's strings contain.
C34_BlockIsWellFramed ==
  last.op.name \in {"print_chars", "display_chars"} =>
    LET out == last.log[1].data
        n == IF last.op.name = "print_chars" THEN Len(out) - 1 ELSE Len(out)
        payload == SubSeq(out, 4, n - 3)
    IN /\ n >= 6
       /\ last.op.name = "print_chars" => out[n + 1] = "\n"
       /\ SubSeq(out, 1, 3) = MARKER_UI_START
       /\ SubSeq(out, n - 2, n) = MARKER_UI_END
       /\ \A i \in 1..Len(payload) : payload[i] # "STX"
       /\ ~Occurs(MARKER_UI_START, payload)
       /\ ~Occurs(MARKER_UI_END, payload)

C34_Witness ==
  /\ last.op.name = "print_chars"
  /\ heap[1].props["content"] = PyChars(MARKER_UI_END)
  /\ Len(last.log[1].data) > 6

\* C35: a dispatch never calls the channel on its own account: the channel
\* is called during a dispatch only from inside a callback that mutates a
\* property, so a dispatch whose callback mutates nothing (or that has no
\* callback) leaves the channel uncalled, and there are never more channel
\* calls than mutating callbacks.
C35_DispatchPushesNothingItself ==
  last.op.name = "handle_interaction" =>
    /\ Len(SelectSeq(last.log, IsCommCall)) <= Len(SelectSeq(last.log, IsHideCallback))
    /\ \A i \in 1..Len(last.log) :
         IsCommCall(last.log[i]) =>
           \E j \in 1..(i - 1) : IsHideCallback(last.log[j])
                                    /\ last.log[j].uid = last.log[i].uid

C35_Witness ==
  /\ last.op.name = "handle_interaction"
  /\ last.ret = True
  /\ comm_target = "ch1"
  /\ \E r \in Refs : /\ heap[r].id = last.op.uid
                      /\ heap[r].kind = "Toggle"
                      /\ heap[r]._on_update = "cbOk"
                      /\ "checked" \in DOMAIN last.op.data
                      /\ heap[r]._checked = last.op.data["checked"]
  /\ Len(last.log) = 2
  /\ IsCallbackCall(last.log[2])

\* how many times x occurs in the list l
Count(x, l) == Cardinality({i \in 1..Len(l) : l[i] = x})

\* C36: every registered widget was either constructed with no active cell
\* or is listed exactly once in the id list of the cell that was active at
\* its construction and in no other cell's list, so that one clear_cell call,
\* and only one, evicts it.
C36_RegisteredIsOrphanOrOwnedOnce ==
  \A r \in Refs :
    (heap[r].id \in DOMAIN instances /\ born[r] # NoneS) =>
      /\ born[r] \in DOMAIN instances_by_cell
      /\ Count(heap[r].id, instances_by_cell[born[r]]) = 1
      /\ \A c \in DOMAIN instances_by_cell \ {born[r]} :
           Count(heap[r].id, instances_by_cell[c]) = 0

\* C37: a widget constructed by a callback during a dispatch is registered
\* and listed under the cell recorded by the latest set_current_cell, and
\* under no other; afterwards clear_cell of that cell evicts it and
\* clear_cell of any other cell, the interacting widget's included, does not.
C37_CallbackWidgetUnderLatestCell ==
  [][/\ (Did({"handle_interaction"}) /\ Len(heap') > Len(heap) /\ lastSet # NoneS) =>
          LET uid == heap'[Len(heap')].id
          IN /\ current_cell_id = lastSet
             /\ uid \in DOMAIN instances'
             /\ lastSet \in DOMAIN instances_by_cell'
             /\ Count(uid, instances_by_cell'[lastSet]) = 1
             /\ \A c \in DOMAIN instances_by_cell' \ {lastSet} :
                  Count(uid, instances_by_cell'[c]) = 0
     /\ Did({"clear_cell"}) =>
          \A r \in Refs :
            (heap[r].kind = "Text" /\ heap[r].id \in DOMAIN instances /\ born[r] # NoneS) =>
              ((heap[r].id \in DOMAIN instances') <=> (born[r] # last'.op.cell))]_vars

\* C38: a property mutation on a widget whose cell has been cleared leaves
\* the registry and every cell's list as they were, so the widget stays
\* unresolvable, and with a channel installed the channel is still called
\* once with the widget's id and the delta.
C38_MutationNeverResurrects ==
  [][(Did(MutationOps) /\ cleared[last'.op.ref]) =>
       /\ instances' = instances
       /\ instances_by_cell' = instances_by_cell
       /\ Truthy(comm_target) =>
            Pushed(last'.log) = <<[uid |-> heap[last'.op.ref].id, data |-> last'.op.data]>>
       /\ \A k \in DOMAIN last'.op.data :
            heap'[last'.op.ref].props[k] = last'.op.data[k]]_vars

C38_Witness ==
  /\ last.op.name \in MutationOps
  /\ cleared[last.op.ref]
  /\ GetNow(heap[last.op.ref].id) = None
  /\ comm_target = "ch1"
  /\ Len(last.log) = 1
  /\ IsCommCall(last.log[1])
  /\ last.log[1].uid = heap[last.op.ref].id

====
